---- MODULE Spec2Model ----
(***************************************************************************)
(* A model of vite-plugin-tailwind-runtime-class                           *)
(* (src/src/vite-plugin-tailwind-runtime-class.ts).                        *)
(*                                                                         *)
(* A text (the content of a file, a key, a class string, a path, a hash)   *)
(* is a JavaScript string: the sequence of its UTF-16 code units, each a   *)
(* number in 0..65535.  s \o t is concatenation, Len(s) the length and     *)
(* At(s, i) the code unit at index i.  U("...") gives the text of an ASCII *)
(* literal; a single character is written as its code unit.                *)
(***************************************************************************)
EXTENDS Integers, Sequences, FiniteSets, TLC

(***************************************************************************)
(* Bounds of the model.                                                    *)
(***************************************************************************)
MaxLen == 3
MaxKeys == 2
MaxSteps == 4

(***************************************************************************)
(* Code units.                                                             *)
(***************************************************************************)
\* the code unit of each character a literal of this module may hold;
\* Ascii is the characters U+0020 to U+005F and U+0061 to U+007E in order
CodeOf ==
  LET Ascii ==
        " !\"#$%&'()*+,-./0123456789:;<=>?@ABCDEFGHIJKLMNOPQRSTUVWXYZ[\\]^_"
          \o "abcdefghijklmnopqrstuvwxyz{|}~"
  IN  [c \in {SubSeq(Ascii, i, i) : i \in 1..Len(Ascii)}
                \cup {"\t", "\n", "\r"}
         |-> CASE c = "\t" -> 9
               [] c = "\n" -> 10
               [] c = "\r" -> 13
               [] OTHER ->
                    LET i == CHOOSE j \in 1..Len(Ascii) :
                                      SubSeq(Ascii, j, j) = c
                    IN  IF i <= 64 THEN i + 31 ELSE i + 32]

\* the text of the literal s
U(s) == [i \in 1..Len(s) |-> CodeOf[SubSeq(s, i, i)]]

\* the empty text
Empty == <<>>

VITE_PLUGIN_NAME == U("vite-plugin-tailwind-runtime-class")
VIRTUAL_MODULE_ID == U("virtual:") \o VITE_PLUGIN_NAME
\* generateRuntimeClass.name (line 59)
MarkerName == U("generateRuntimeClass")

\* what At gives outside the text
NoUnit == 0 - 1

\* the code unit at index i of s
At(s, i) == IF 1 <= i /\ i <= Len(s) THEN s[i] ELSE NoUnit


\* the code units of " \ space : , / . - 0
Quote == 34
Backslash == 92
Space == 32
Colon == 58
Comma == 44
Slash == 47
Dot == 46
Minus == 45
Zero == 48
\* U+0008 and U+000C
Backspace == 8
FormFeed == 12
\* U+0009, U+000A and U+000D
Tab == 9
LineFeed == 10
Return == 13

\* 0 to 9
Digits == 48..57
\* 0 to 9, a to f, A to F
HexChars == Digits \cup 97..102 \cup 65..70

\* regex class \w: digits, A to Z, a to z and _
WordChars ==
  Digits \cup 65..90 \cup 97..122 \cup {95}

\* regex class \s, which is also what String.prototype.trim removes: U+0009
\* to U+000D, the space, U+00A0, U+1680, U+2000 to U+200A, U+2028, U+2029,
\* U+202F, U+205F, U+3000 and U+FEFF
WhiteSpace ==
  9..13 \cup {32, 160, 5760, 8232, 8233, 8239, 8287, 12288, 65279}
    \cup 8192..8202

\* the whitespace JSON.parse skips between tokens
JsonSpace == {Space, Tab, LineFeed, Return}

IsWord(c) == c \in WordChars

(***************************************************************************)
(* String helpers.                                                         *)
(***************************************************************************)
RECURSIVE SkipIn(_, _, _)
\* the first index >= i of s whose code unit is not in set (Len(s)+1 if none)
SkipIn(s, i, set) == IF At(s, i) \in set THEN SkipIn(s, i + 1, set) ELSE i

\* \s* from index i
SkipSpace(s, i) == SkipIn(s, i, WhiteSpace)

\* whether the text w stands in s at index i
StartsAt(s, i, w) ==
  i + Len(w) - 1 <= Len(s) /\ SubSeq(s, i, i + Len(w) - 1) = w

RECURSIVE Flatten(_)
\* concatenation of a sequence of texts
Flatten(ss) == IF ss = <<>> THEN Empty ELSE Head(ss) \o Flatten(Tail(ss))

RECURSIVE JoinWith(_, _)
\* Array.prototype.join, sep being a text
JoinWith(ss, sep) ==
  IF ss = <<>> THEN Empty
  ELSE IF Len(ss) = 1 THEN ss[1]
  ELSE ss[1] \o sep \o JoinWith(Tail(ss), sep)

RECURSIVE SplitOn(_, _)
\* String.prototype.split(sep) for a separator of one code unit: the texts
\* between separators, empty ones included; the empty text splits into
\* one empty text
SplitOn(s, sep) ==
  LET i == SkipIn(s, 1, {s[j] : j \in 1..Len(s)} \ {sep})
  IN  IF i > Len(s) THEN <<s>>
      ELSE <<SubSeq(s, 1, i - 1)>> \o SplitOn(SubSeq(s, i + 1, Len(s)), sep)

RECURSIVE TrimEnd(_)
TrimEnd(s) ==
  IF At(s, Len(s)) \in WhiteSpace THEN TrimEnd(SubSeq(s, 1, Len(s) - 1)) ELSE s

\* String.prototype.trim
Trim(s) == TrimEnd(SubSeq(s, SkipSpace(s, 1), Len(s)))

(***************************************************************************)
(* JavaScript objects: a sequence of entries [k, v] with distinct keys, in *)
(* own-property order (array-index keys ascending, then other keys in      *)
(* insertion order).  A value is a tagged record; strings carry their text.*)
(***************************************************************************)
Str(s) == [type |-> "string", str |-> s]
NonString(t) == [type |-> t]
IsString(v) == v.type = "string"

\* the largest array index, 2^32 - 2
MaxIndex == U("4294967294")

RECURSIVE DigitsLess(_, _)
\* a < b for two runs of digits of the same length
DigitsLess(a, b) ==
  IF a = <<>> THEN FALSE
  ELSE IF Head(a) = Head(b) THEN DigitsLess(Tail(a), Tail(b))
  ELSE Head(a) < Head(b)

\* a < b for two canonical numeric strings
NumLess(a, b) == Len(a) < Len(b) \/ (Len(a) = Len(b) /\ DigitsLess(a, b))

\* an array index: a canonical numeric string (no leading zero, no sign) of
\* value at most 2^32 - 2
IsIndexKey(k) ==
  /\ k # <<>>
  /\ \A i \in 1..Len(k) : k[i] \in Digits
  /\ k = <<Zero>> \/ Head(k) # Zero
  /\ ~NumLess(MaxIndex, k)

\* an own property
HasKey(obj, k) == \E i \in 1..Len(obj) : obj[i].k = k

\* the value of the own property k
ObjGet(obj, k) ==
  LET i == CHOOSE j \in 1..Len(obj) : obj[j].k = k IN obj[i].v

\* before(a, b): key a is enumerated before a new key b
KeyBefore(a, b) ==
  IF IsIndexKey(b) THEN IsIndexKey(a) /\ NumLess(a, b) ELSE TRUE

\* the own property k is defined as v (JSON.parse, an object spread)
ObjSet(obj, k, v) ==
  IF HasKey(obj, k)
  THEN [i \in 1..Len(obj) |->
          IF obj[i].k = k THEN [k |-> k, v |-> v] ELSE obj[i]]
  ELSE LET n == Cardinality({i \in 1..Len(obj) : KeyBefore(obj[i].k, k)})
       IN  SubSeq(obj, 1, n) \o <<[k |-> k, v |-> v]>>
             \o SubSeq(obj, n + 1, Len(obj))

\* the accessor every object created by {} inherits from Object.prototype
Proto == U("__proto__")

\* obj[k] = v for a string v and an object created by {} (lines 38, 96 and
\* 167): the inherited setter of __proto__ runs and, v being no object,
\* changes nothing; any other key becomes an own property
Assign(obj, k, v) == IF k = Proto THEN obj ELSE ObjSet(obj, k, v)

\* the methods such an object inherits
ProtoMethods ==
  {U("constructor"), U("hasOwnProperty"), U("isPrototypeOf"),
   U("propertyIsEnumerable"), U("toLocaleString"), U("toString"),
   U("valueOf"), U("__defineGetter__"), U("__defineSetter__"),
   U("__lookupGetter__"), U("__lookupSetter__")}

\* obj[k] for an object created by {} whose own properties are strings:
\* the own property, else what Object.prototype has under k
Lookup(obj, k) ==
  IF HasKey(obj, k) THEN ObjGet(obj, k)
  ELSE IF k = Proto THEN NonString("object")
  ELSE IF k \in ProtoMethods THEN NonString("function")
  ELSE NonString("undefined")

(***************************************************************************)
(* generateRuntimeClass (lines 217-232).                                   *)
(***************************************************************************)
\* the key whose tokens get no prefix
Default == U("default")

\* the prefix put on the tokens of default too
PrefixTokenAlways(size, c) == size \o <<Colon>> \o c

\* `${size}:${c}` or c
PrefixToken(size, c) == IF size = Default THEN c ELSE size \o <<Colon>> \o c

\* className.split(' ').map(...).join(' ') + ' '
ExpandEntry(size, className) ==
  LET toks == SplitOn(className, Space)
  IN  JoinWith([i \in 1..Len(toks) |-> PrefixToken(size, toks[i])],
               <<Space>>) \o <<Space>>

\* a value that is not a string has no split method: TypeError
Throws(obj) == \E i \in 1..Len(obj) : ~IsString(obj[i].v)

\* the text runtimeClass has after the forEach of lines 220-226
Expansion(obj) ==
  Flatten([i \in 1..Len(obj) |-> ExpandEntry(obj[i].k, obj[i].v.str)])

generateRuntimeClass(obj) ==
  IF Throws(obj) THEN [threw |-> TRUE]
  ELSE [threw |-> FALSE,
        obj |-> ObjSet(obj, U("runtimeClass"), Str(Expansion(obj))),
        runtimeClass |-> Expansion(obj)]
(***************************************************************************)
(* JSON.parse (line 70).                                                   *)
(***************************************************************************)
ParseFail == [ok |-> FALSE]

\* the value of the hexadecimal digit c
HexVal(c) ==
  IF c \in Digits THEN c - 48
  ELSE IF c \in 97..102 THEN c - 97 + 10  \* 97 is a
  ELSE c - 65 + 10

\* the code unit of \uXXXX, hex being the four digits
CodeUnit(hex) ==
  4096 * HexVal(hex[1]) + 256 * HexVal(hex[2]) + 16 * HexVal(hex[3])
    + HexVal(hex[4])

\* the characters that may follow a backslash inside a JSON string, \u apart
SimpleEscapes ==
  {Quote, Backslash, Slash, 98, 102, 110, 114,  \* 98 is b, 102 is f, 110 is n, 114 is r
   116}  \* 116 is t

\* the code unit the escape \e stands for
Unescape(e) ==
  CASE e = 98 -> Backspace  \* 98 is b
    [] e = 102 -> FormFeed  \* 102 is f
    [] e = 110 -> LineFeed  \* 110 is n
    [] e = 114 -> Return  \* 114 is r
    [] e = 116 -> Tab  \* 116 is t
    [] OTHER -> e

RECURSIVE ParseChars(_, _, _)
\* the rest of a JSON string from s[i], acc being the text read so far
ParseChars(s, i, acc) ==
  LET c == At(s, i)
  IN  IF c < Space THEN ParseFail
      ELSE IF c = Quote
      THEN [ok |-> TRUE, v |-> Str(acc), next |-> i + 1]
      ELSE IF c = Backslash
      THEN (IF At(s, i + 1) \in SimpleEscapes
            THEN ParseChars(s, i + 2, Append(acc, Unescape(At(s, i + 1))))
            ELSE IF At(s, i + 1) = 117  \* 117 is u
                      /\ \A k \in 2..5 : At(s, i + k) \in HexChars
            THEN ParseChars(s, i + 6,
                            Append(acc, CodeUnit(SubSeq(s, i + 2, i + 5))))
            ELSE ParseFail)
      ELSE ParseChars(s, i + 1, Append(acc, c))

\* s[i] is the opening quote
ParseString(s, i) == ParseChars(s, i + 1, Empty)

\* the index after the run of digits that starts at s[i]
SkipDigits(s, i) == SkipIn(s, i, Digits)

\* s[i] starts a number: -? int frac? exp? with int = 0 | [1-9][0-9]*,
\* frac = . [0-9]+ and exp = [eE] [+-]? [0-9]+
ParseNumber(s, i) ==
  LET d == IF At(s, i) = Minus THEN i + 1 ELSE i
      n == IF At(s, d) = Zero THEN d + 1 ELSE SkipDigits(s, d)
      f == IF At(s, n) = Dot THEN SkipDigits(s, n + 1) ELSE n
      x == IF At(s, f) \in {101, 69}  \* 101 is e, 69 is E
           THEN (IF At(s, f + 1) \in {43, Minus} THEN f + 2  \* 43 is +
                 ELSE f + 1)
           ELSE f
      e == IF x > f THEN SkipDigits(s, x) ELSE f
  IN  IF n = d \/ (At(s, n) = Dot /\ f = n + 1) \/ (x > f /\ e = x)
      THEN ParseFail
      ELSE [ok |-> TRUE, v |-> NonString("number"), next |-> e]

\* the whitespace between two tokens
SkipJsonSpace(s, i) == SkipIn(s, i, JsonSpace)


RECURSIVE ParseValue(_, _), ParseMembers(_, _, _), ParseElements(_, _)

\* the value that starts at s[i]
ParseValue(s, i) ==
  LET c == At(s, i)
  IN  IF c = Quote THEN ParseString(s, i)
      ELSE IF c \in Digits \cup {Minus} THEN ParseNumber(s, i)
      ELSE IF c = 123 THEN  \* 123 is {
        LET j == SkipJsonSpace(s, i + 1)
        IN  IF At(s, j) = 125  \* 125 is }
            THEN [ok |-> TRUE, v |-> [type |-> "object", obj |-> <<>>],
                  next |-> j + 1]
            ELSE ParseMembers(s, j, <<>>)
      ELSE IF c = 91 THEN  \* 91 is [
        LET j == SkipJsonSpace(s, i + 1)
        IN  IF At(s, j) = 93  \* 93 is ]
            THEN [ok |-> TRUE, v |-> NonString("array"), next |-> j + 1]
            ELSE ParseElements(s, j)
      ELSE IF StartsAt(s, i, U("true")) \/ StartsAt(s, i, U("null"))
      THEN [ok |-> TRUE,
            v |-> NonString(IF c = 116 THEN "boolean" ELSE "null"),  \* 116 is t
            next |-> i + 4]
      ELSE IF StartsAt(s, i, U("false"))
      THEN [ok |-> TRUE, v |-> NonString("boolean"), next |-> i + 5]
      ELSE ParseFail

\* "key" : value, then a comma and more members or the closing brace
ParseMembers(s, i, acc) ==
  IF At(s, i) # Quote THEN ParseFail
  ELSE LET key == ParseString(s, i)
       IN  IF ~key.ok THEN ParseFail
           ELSE LET c == SkipJsonSpace(s, key.next)
                IN  IF At(s, c) # Colon THEN ParseFail
                    ELSE LET val == ParseValue(s, SkipJsonSpace(s, c + 1))
                         IN  IF ~val.ok THEN ParseFail
                             ELSE LET e == SkipJsonSpace(s, val.next)
                                      obj == ObjSet(acc, key.v.str, val.v)
                                  IN  IF At(s, e) = 125  \* 125 is }
                                      THEN [ok |-> TRUE,
                                            v |-> [type |-> "object",
                                                   obj |-> obj],
                                            next |-> e + 1]
                                      ELSE IF At(s, e) = Comma
                                      THEN ParseMembers(
                                             s, SkipJsonSpace(s, e + 1), obj)
                                      ELSE ParseFail

\* value, then a comma and more elements or the closing bracket
ParseElements(s, i) ==
  LET val == ParseValue(s, i)
  IN  IF ~val.ok THEN ParseFail
      ELSE LET e == SkipJsonSpace(s, val.next)
           IN  IF At(s, e) = 93  \* 93 is ]
               THEN [ok |-> TRUE, v |-> NonString("array"), next |-> e + 1]
               ELSE IF At(s, e) = Comma
               THEN ParseElements(s, SkipJsonSpace(s, e + 1))
               ELSE ParseFail

\* JSON.parse(text): the value, or a SyntaxError
JSONParse(s) ==
  LET val == ParseValue(s, SkipJsonSpace(s, 1))
  IN  IF val.ok /\ SkipJsonSpace(s, val.next) = Len(s) + 1
      THEN [ok |-> TRUE, v |-> val.v]
      ELSE ParseFail

(***************************************************************************)
(* JSON.stringify(classObj, null, 2) (line 41) for an object of strings.   *)
(***************************************************************************)
\* the first and the second code unit of a surrogate pair
HighSurrogates == 55296..56319
LowSurrogates == 56320..57343

\* the lower-case hexadecimal digit of value n
HexDigit(n) == IF n < 10 THEN 48 + n ELSE 97 + n - 10  \* 48 is 0, 97 is a

\* \uXXXX for the code unit c
UnicodeEscape(c) ==
  <<Backslash, 117, HexDigit(c \div 4096), HexDigit((c \div 256) % 16),  \* 117 is u
    HexDigit((c \div 16) % 16), HexDigit(c % 16)>>

\* how the code unit at index i of s is written inside a JSON string: the
\* quote, the backslash and the code units below U+0020 are escaped, and so
\* is a surrogate that is not part of a pair
EscapeAt(s, i) ==
  LET c == s[i]
  IN  CASE c = Quote -> <<Backslash, Quote>>
        [] c = Backslash -> <<Backslash, Backslash>>
        [] c = Backspace -> <<Backslash, 98>>  \* 98 is b
        [] c = FormFeed -> <<Backslash, 102>>  \* 102 is f
        [] c = LineFeed -> <<Backslash, 110>>  \* 110 is n
        [] c = Return -> <<Backslash, 114>>  \* 114 is r
        [] c = Tab -> <<Backslash, 116>>  \* 116 is t
        [] c < Space /\ c \notin {Backspace, FormFeed, LineFeed, Return, Tab}
             -> UnicodeEscape(c)
        [] c \in HighSurrogates /\ At(s, i + 1) \notin LowSurrogates
             -> UnicodeEscape(c)
        [] c \in LowSurrogates /\ At(s, i - 1) \notin HighSurrogates
             -> UnicodeEscape(c)
        [] OTHER -> <<c>>

Escape(s) == Flatten([i \in 1..Len(s) |-> EscapeAt(s, i)])

StringifyEntry(e) ==
  <<LineFeed, Space, Space, Quote>> \o Escape(e.k) \o <<Quote, Colon, Space,
    Quote>> \o Escape(e.v.str) \o <<Quote>>

JSONStringify(obj) ==
  IF obj = <<>> THEN U("{}")
  ELSE <<123>>  \* 123 is {
         \o JoinWith([i \in 1..Len(obj) |-> StringifyEntry(obj[i])], <<Comma>>)
         \o <<LineFeed, 125>>  \* 125 is }

(***************************************************************************)
(* extractRuntimeClassFromFile (lines 44-77).                              *)
(***************************************************************************)
\* the text is taken to hold whatever is looked for
AlwaysIncludes(s, sub) == TRUE

\* String.prototype.includes
Includes(s, sub) == \E i \in 1..(Len(s) - Len(sub) + 1) : StartsAt(s, i, sub)

\* the indices after k of the closing braces that \s*\) follows
ClosingBraces(s, k) ==
  {e \in (k + 1)..Len(s) :
     At(s, e) = 125 /\ At(s, SkipSpace(s, e + 1)) = 41}  \* 125 is }, 41 is )

\* the greedy {[\s\S]*}: the last closing brace that \s*\) follows
GreedyLiteralEnd(s, k) ==
  LET ends == ClosingBraces(s, k)
  IN  IF ends = {} THEN 0
      ELSE CHOOSE e \in ends : \A x \in ends : e >= x

\* the end e of the shortest {[\s\S]*?} that starts at s[k] and is followed
\* by \s*\) ; 0 if there is none
LiteralEnd(s, k) ==
  LET ends == ClosingBraces(s, k)
  IN  IF ends = {} THEN 0
      ELSE CHOOSE e \in ends : \A x \in ends : e <= x

\* the regular expression of lines 58-60 matched with the marker name
\* starting at s[i]: [ok, lit] with lit the capture group ({...})
MatchAt(s, i) ==
  IF ~StartsAt(s, i, MarkerName) THEN [ok |-> FALSE]
  ELSE LET j == SkipSpace(s, i + Len(MarkerName))
       IN  IF At(s, j) # 40 THEN [ok |-> FALSE]  \* 40 is (
           ELSE LET k == SkipSpace(s, j + 1)
                IN  IF At(s, k) # 123 \/ LiteralEnd(s, k) = 0  \* 123 is {
                    THEN [ok |-> FALSE]
                    ELSE [ok |-> TRUE, lit |-> SubSeq(s, k, LiteralEnd(s, k))]

\* content.match(regex): the leftmost match
RegexMatch(s) ==
  LET starts == {i \in 1..Len(s) : MatchAt(s, i).ok}
  IN  IF starts = {} THEN [ok |-> FALSE]
      ELSE MatchAt(s, CHOOSE i \in starts : \A x \in starts : i <= x)

\* the index after the run of word characters that starts at s[i]
WordEnd(s, i) == SkipIn(s, i, WordChars)

\* a match of (\w+): starts at s[i]: i begins a run of word characters that
\* a colon follows
KeyStart(s, i) ==
  IsWord(At(s, i)) /\ ~IsWord(At(s, i - 1)) /\ At(s, WordEnd(s, i)) = Colon

\* .replace(/(\w+):/g, '"$1":')
QuoteKeys(s) ==
  Flatten([i \in 1..Len(s) |->
    LET closes == s[i] = Colon /\ IsWord(At(s, i - 1))
    IN  IF KeyStart(s, i) \/ closes THEN <<Quote, s[i]>> ELSE <<s[i]>>])

\* .replace(/'/g, '"')
DoubleQuotes(s) ==
  [i \in 1..Len(s) |-> IF s[i] = 39 THEN Quote ELSE s[i]]  \* 39 is '

\* .replace(/,\s*}/, '}'): the first comma that only whitespace separates
\* from a closing brace is removed with that whitespace
DropTrailingComma(s) ==
  LET hits == {i \in 1..Len(s) :
                 s[i] = Comma /\ At(s, SkipSpace(s, i + 1)) = 125}  \* 125 is }
  IN  IF hits = {} THEN s
      ELSE LET i == CHOOSE h \in hits : \A x \in hits : h <= x
           IN  SubSeq(s, 1, i - 1) \o SubSeq(s, SkipSpace(s, i + 1), Len(s))

\* lines 65-68
Normalize(lit) == DropTrailingComma(DoubleQuotes(QuoteKeys(lit)))

\* whether the marker call of text has an argument that does not parse into
\* an object of strings
Malformed(text) ==
  /\ Includes(text, VIRTUAL_MODULE_ID)
  /\ RegexMatch(text).ok
  /\ LET parsed == JSONParse(Normalize(RegexMatch(text).lit))
     IN  ~parsed.ok \/ \E i \in 1..Len(parsed.v.obj) :
                          ~IsString(parsed.v.obj[i].v)

\* the result of readFileSync: the text, or an error
ReadOk(text) == [ok |-> TRUE, text |-> text]
ReadError == [ok |-> FALSE]

\* the literal itself is returned when it does not parse
ExtractKeepsLiteral(rd) ==
  IF ~rd.ok \/ ~Includes(rd.text, VIRTUAL_MODULE_ID) THEN Empty
  ELSE LET match == RegexMatch(rd.text)
       IN  IF ~match.ok THEN Empty
           ELSE LET parsed == JSONParse(Normalize(match.lit))
                IN  IF ~parsed.ok \/ generateRuntimeClass(parsed.v.obj).threw
                    THEN match.lit
                    ELSE generateRuntimeClass(parsed.v.obj).runtimeClass

\* line 72, or the catch of line 73 when generateRuntimeClass threw
ExtractResult(result) == IF result.threw THEN Empty ELSE result.runtimeClass

\* lines 70-71: JSON.parse threw, or generateRuntimeClass runs on its value
ExtractParsed(parsed) ==
  IF ~parsed.ok THEN Empty ELSE ExtractResult(generateRuntimeClass(parsed.v.obj))

\* lines 63-70: no match, or the literal is rewritten and parsed
ExtractMatch(match) ==
  IF ~match.ok THEN Empty ELSE ExtractParsed(JSONParse(Normalize(match.lit)))

\* the runtimeClass field of what extractRuntimeClassFromFile returns when
\* readFileSync gives rd; every exception ends in the catch of line 73
extractRuntimeClassFromFile(rd) ==
  IF ~rd.ok THEN Empty
  ELSE IF ~Includes(rd.text, VIRTUAL_MODULE_ID) THEN Empty
  ELSE ExtractMatch(RegexMatch(rd.text))

(***************************************************************************)
(* The source texts the files of the project may hold.                     *)
(***************************************************************************)
Import ==
  U("import { ") \o MarkerName \o U(" } from '") \o VIRTUAL_MODULE_ID
    \o U("';\n")
Call(name, lit) ==
  U("const ") \o U(name) \o U(" = ") \o MarkerName \o U("(") \o lit
    \o U(");\n")

LitA == U("{ sm: 'a' }")
LitA2 == U("{ sm: 'a', }")
LitB == U("{ default: 'a b', md: 'b' }")
LitC == U("{ md: 'b' }")
LitArr == U("{ sm: [1,2] }")
LitOpen == U("{ sm: 'a }")
LitEmpty == U("{ default: '', sm: 'x' }")

ContentIds ==
  {"plain", "nocall", "A", "A2", "B", "arr", "open", "two", "twoB", "twoC",
   "noimport", "xmarker", "empty"}

\* the text of each
TextOf ==
  [id \in ContentIds |->
  CASE id = "plain" -> U("const x;\n")
    [] id = "nocall" -> Import
    [] id = "A" -> Import \o Call("x", LitA)
    [] id = "A2" -> Import \o Call("x", LitA2)
    [] id = "B" -> Import \o Call("x", LitB)
    [] id = "arr" -> Import \o Call("x", LitArr)
    [] id = "open" -> Import \o Call("x", LitOpen)
    [] id = "two" -> Import \o Call("x", LitA) \o Call("y", LitC)
    [] id = "twoB" -> Import \o Call("x", LitA) \o Call("y", LitB)
    [] id = "twoC" -> Import \o Call("x", LitB) \o Call("y", LitA)
    [] id = "noimport" -> Call("x", LitA)
    [] id = "xmarker" ->
         Import \o U("x") \o MarkerName \o U("(") \o LitA \o U(");\n")
    [] id = "empty" -> Import \o Call("x", LitEmpty)]

Text(id) == TextOf[id]

(***************************************************************************)
(* getFileHash (lines 210-215): the first 8 hex digits of the MD5 of each  *)
(* text above, and getFileInfo (lines 190-208).                            *)
(***************************************************************************)
getFileHash(id) ==
  CASE id = "plain" -> U("07a0ba0e")
    [] id = "nocall" -> U("502b24a3")
    [] id = "A" -> U("0d6f6d61")
    [] id = "A2" -> U("f2fad6be")
    [] id = "B" -> U("24acb094")
    [] id = "arr" -> U("fb80f717")
    [] id = "open" -> U("434087ec")
    [] id = "two" -> U("76092358")
    [] id = "twoB" -> U("9fa7bb70")
    [] id = "twoC" -> U("dede0990")
    [] id = "noimport" -> U("5093f2ff")
    [] id = "xmarker" -> U("f81d7d39")
    [] id = "empty" -> U("9b00274c")

\* the project's files, by their paths below the working directory; the
\* third is a file of the working directory named __proto__
FileA == U("src/a.ts")
FileB == U("src/b.ts")
FileNames == {FileA, FileB, Proto}

\* what a file of the disk is: one of the texts, a file that exists but
\* cannot be read (readFileSync throws, statSync succeeds), or no file
Unreadable == "EACCES"
Missing == "ENOENT"
DiskStates == ContentIds \cup {Unreadable, Missing}

\* the states each file takes while the plugin runs
EditStates(f) ==
  IF f = FileA THEN {"A", "A2", "B", "arr", "plain", Unreadable, Missing}
  ELSE IF f = FileB THEN {"B", "arr", Missing}
  ELSE {"A"}

\* readFileSync(filePath, 'utf-8') of a file in state d
ReadFile(d) == IF d \in ContentIds THEN ReadOk(Text(d)) ELSE ReadError

\* null, or {hash, size} (size is never used and is left out)
getFileInfo(d) ==
  IF d \in ContentIds THEN [null |-> FALSE, hash |-> getFileHash(d)]
  ELSE IF d = Unreadable THEN [null |-> FALSE, hash |-> Empty]
  ELSE [null |-> TRUE, hash |-> Empty]

(***************************************************************************)
(* Paths.                                                                  *)
(***************************************************************************)
\* process.cwd()
CWD == U("/cwd")
OutName == VITE_PLUGIN_NAME \o U(".json")

\* the two ways a path of a project file is written
Rel(f) == f
Abs(f) == CWD \o <<Slash>> \o f
IsAbsolute(path) == At(path, 1) = Slash

RECURSIVE Resolved(_, _)
\* the segments segs followed after those of acc: empty segments and . are
\* dropped, .. leaves the directory it follows
Resolved(acc, segs) ==
  IF segs = <<>> THEN acc
  ELSE IF Head(segs) \in {Empty, <<Dot>>} THEN Resolved(acc, Tail(segs))
  ELSE IF Head(segs) = <<Dot, Dot>>
  THEN Resolved(SubSeq(acc, 1, Len(acc) - 1), Tail(segs))
  ELSE Resolved(Append(acc, Head(segs)), Tail(segs))

\* path.resolve(process.cwd(), path), as the segments below the root
Resolve(path) ==
  IF IsAbsolute(path) THEN Resolved(<<>>, SplitOn(path, Slash))
  ELSE Resolved(Resolved(<<>>, SplitOn(CWD, Slash)), SplitOn(path, Slash))

RECURSIVE CommonLen(_, _)
\* the length of the longest common prefix of two sequences
CommonLen(a, b) ==
  IF a # <<>> /\ b # <<>> /\ Head(a) = Head(b)
  THEN 1 + CommonLen(Tail(a), Tail(b)) ELSE 0

\* path.relative(from, to)
relative(from, to) ==
  LET a == Resolve(from)
      b == Resolve(to)
      n == CommonLen(a, b)
  IN  JoinWith([i \in 1..(Len(a) - n) |-> <<Dot, Dot>>]
                 \o SubSeq(b, n + 1, Len(b)), <<Slash>>)

\* the paths the plugin meets: the project's files and the output file, as
\* they may be written
Paths ==
  UNION {{f, <<Dot, Slash>> \o f, Abs(f)} : f \in FileNames \cup {OutName}}
\* relative(process.cwd(), path) of each of them, computed once
RelativeOf == [path \in Paths |-> relative(CWD, path)]

\* toRelativePath (lines 234-236)
toRelativePath(path) ==
  IF path \in Paths THEN RelativeOf[path] ELSE relative(CWD, path)

\* the file a path names, as the file system resolves it: by its name below
\* the working directory
FileOf(path) == toRelativePath(path)

\* line 30, the default of outPutPath
outPutPath == <<Dot, Slash>> \o OutName
\* the output path compared as the option gives it
OutputPathAsGiven == outPutPath

\* line 36
relativeOutputPath == toRelativePath(outPutPath)

(***************************************************************************)
(* The include/exclude options (lines 27-35).  A pattern is given by how   *)
(* it is written (relative to the working directory, absolute, or with two *)
(* leading stars) and by the project files its glob matches.               *)
(***************************************************************************)
Pattern(base, files) == [base |-> base, files |-> files]
PatNodeModules == Pattern("rel", {})
PatSrcTs == Pattern("rel", {FileA, FileB})
PatB == Pattern("rel", {FileB})
PatAbsSrcTs == Pattern("abs", {FileA, FileB})

\* exclude = ['node_modules'], include = []
DefaultOptions == [include |-> <<>>, exclude |-> <<PatNodeModules>>]
Options ==
  { DefaultOptions,
    [include |-> <<PatSrcTs>>, exclude |-> <<PatB>>],
    [include |-> <<PatAbsSrcTs>>, exclude |-> <<PatNodeModules>>],
    [include |-> <<PatB, Pattern("rel", {Proto})>>,
     exclude |-> <<PatNodeModules>>] }

\* what two leading stars match in front of a file's name: nothing, or
\* directories none of which is . or ..
StarPrefix(prefix) ==
  \/ prefix = Empty
  \/ /\ At(prefix, Len(prefix)) = Slash
     /\ \A i \in 1..Len(SplitOn(prefix, Slash)) :
          SplitOn(prefix, Slash)[i] \notin {<<Dot>>, <<Dot, Dot>>}

\* createFilter resolves a pattern that neither is absolute nor starts with
\* two stars against the working directory: it then matches the absolute
\* path of a file only; the id is matched as it is written
PatternTest(pat, id) ==
  \E f \in pat.files :
    IF pat.base = "star"
    THEN /\ Len(f) <= Len(id)
         /\ SubSeq(id, Len(id) - Len(f) + 1, Len(id)) = f
         /\ StarPrefix(SubSeq(id, 1, Len(id) - Len(f)))
    ELSE id = Abs(f)

\* filter = createFilter(include, exclude) (line 35), applied to id
filter(opts, id) ==
  IF \E i \in 1..Len(opts.exclude) : PatternTest(opts.exclude[i], id)
  THEN FALSE
  ELSE IF \E i \in 1..Len(opts.include) : PatternTest(opts.include[i], id)
  THEN TRUE
  ELSE opts.include = <<>>

\* the lists that hold each element of S once: fast-glob promises no order
Orders(S) ==
  {s \in [1..Cardinality(S) -> S] :
     \A i, j \in 1..Cardinality(S) : s[i] = s[j] => i = j}

\* what glob.sync(include) (line 86) may return: the existing files that
\* some include pattern matches, written the way the pattern is, in some
\* order
globSync(include, d) ==
  LET found == {f \in FileNames :
                  /\ d[f] # Missing
                  /\ \E i \in 1..Len(include) : f \in include[i].files}
      form(f) ==
        IF \E i \in 1..Len(include) :
             f \in include[i].files /\ include[i].base # "abs"
        THEN Rel(f) ELSE Abs(f)
  IN  {[i \in 1..Len(names) |-> form(names[i])] : names \in Orders(found)}
(***************************************************************************)
(* The plugin's state.                                                     *)
(***************************************************************************)
VARIABLES
  opts,        \* the options the plugin was created with
  watching,    \* configureServer has registered the change handler
  disk,        \* the project's files
  fileHashes,  \* line 37: Map path -> hash
  classMap,    \* line 38: object path -> runtimeClass
  artifact,    \* the text of the file at relativeOutputPath
  pc,          \* "idle", or "scanning" inside processAllFiles
  allFiles,    \* line 86, the list of the scan
  scanLog,     \* for each file the scan has visited: its path, the state
               \* getFileInfo read it in (rd), the state the extraction
               \* read it in (rd2, "-" when it did not run), whether
               \* extraction ran, what classMap[path] was before
  lastOp,      \* what the last change event did
  steps,       \* how many edits, scans, change events and failed writes
               \* have happened
  writeFailed, \* some writeFileSync has thrown
  arg,         \* the object a caller of the exported generateRuntimeClass
               \* (lines 134-138) passes
  ret          \* what that call returned

vars ==
  <<opts, watching, disk, fileHashes, classMap, artifact, pc, allFiles,
    scanLog, lastOp, steps, writeFailed, arg, ret>>

pluginVars ==
  <<opts, watching, disk, fileHashes, classMap, artifact, pc, allFiles,
    scanLog, lastOp, steps, writeFailed>>
callVars == <<arg, ret>>

\* there is no file at relativeOutputPath: no text, NoUnit being no code
\* unit
NoArtifact == <<NoUnit>>

\* Map.prototype.get / set
Undefined == "undefined"
MapGet(m, k) == IF k \in DOMAIN m THEN Str(m[k]) ELSE NonString(Undefined)
MapSet(m, k, v) == [x \in DOMAIN m \cup {k} |-> IF x = k THEN v ELSE m[x]]

\* handleHotUpdate (lines 140-145): [] for the output file, else undefined
handleHotUpdate(file) ==
  IF toRelativePath(file) = relativeOutputPath THEN "[]" ELSE Undefined

\* what extractRuntimeClassFromFile gives for a file in each state of the
\* disk: the extraction reads nothing but the file
ExtractOf == [d \in DiskStates |-> extractRuntimeClassFromFile(ReadFile(d))]
\* line 93 and line 164, for a file read in state d
Extract(d) == ExtractOf[d]

\* only the entry assigned last is written
WriteLastEntryOnly(classObj) ==
  JSONStringify(IF classObj = <<>> THEN <<>>
                ELSE <<classObj[Len(classObj)]>>)

\* the text writeClassObjToDesk (lines 40-42) writes
writeClassObjToDesk(classObj) == JSONStringify(classObj)

\* lastOp: the path of the event (path), the state getFileInfo read the
\* file in (rd, "-" when the event was ignored), the state the extraction
\* read it in (rd2, "-" when it did not run), whether a fingerprint of the file
\* equal to the new one had been committed under no key (fresh), whether the
\* path had a store entry (had), whether extraction ran (extracted), whether
\* the store entry was assigned (set), whether the artifact was written
\* (wrote) or the write threw and the exception left the pass for its
\* caller (threw), whether the event repeats the one before it, path and
\* content (repeat), and whether that one wrote
NoOp ==
  [kind |-> "none", path |-> Empty, rd |-> "-", rd2 |-> "-", fresh |-> FALSE,
   had |-> FALSE, extracted |-> FALSE, set |-> FALSE, wrote |-> FALSE,
   threw |-> FALSE, repeat |-> FALSE, prevWrote |-> FALSE]

\* the fingerprints committed for file f, under whatever key
Committed(hashes, f) ==
  {hashes[k] : k \in {x \in DOMAIN hashes : FileOf(x) = f}}

\* classMap[filePath] (line 165)
Entry(obj, filePath) == Lookup(obj, filePath)

NoCall == [threw |-> FALSE, obj |-> <<>>, runtimeClass |-> <<NoUnit>>]

\* the plugin as tailwindRuntimeClassGenerator (lines 27-38) returns it,
\* with the project's files in the states of D
InitPlugin(O, D) ==
  /\ opts \in O
  /\ watching = FALSE
  /\ disk \in {d \in [FileNames -> DiskStates] :
                \A f \in FileNames : d[f] \in D[f]}
  /\ fileHashes = <<>>
  /\ classMap = <<>>
  /\ artifact = NoArtifact
  /\ pc = "idle"
  /\ allFiles = <<>>
  /\ scanLog = <<>>
  /\ lastOp = NoOp
  /\ steps = 0
  /\ writeFailed = FALSE

\* the project's files start with a text of one call or do not exist; edits
\* reach the other states
Init ==
  /\ InitPlugin(Options,
                [f \in FileNames |->
                   EditStates(f) \cap {"A", "B", "arr", Missing}])
  /\ arg = <<>>
  /\ ret = NoCall

\* the outcomes of a writeFileSync of text: it returns, the whole text
\* written; or it throws, the file not opened (n units written: none, the
\* file as it was, n = NoUnit) or opened, which empties it, and n units
\* of the text written, from none to all of them.  The texts the plugin
\* writes here hold ASCII characters only, one byte to the code unit.
WriteOutcomes(text) ==
  {[threw |-> FALSE, n |-> Len(text)]}
    \cup {[threw |-> TRUE, n |-> k] : k \in {NoUnit} \cup 0..Len(text)}

\* the file after a writeFileSync of text with outcome w, old being the file
\* before
Written(w, text, old) ==
  IF w.n = NoUnit THEN old ELSE SubSeq(text, 1, w.n)

(***************************************************************************)
(* The environment: a file is edited, removed, created or made unreadable, *)
(* at any time.  processAllFiles runs to its end without yielding, so an   *)
(* edit made during a scan shows only in a file the loop has yet to read;  *)
(* the edit of a file it has passed is the same edit made after the scan.  *)
(***************************************************************************)
Edit(f, d) ==
  /\ pc = "scanning" =>
       \E i \in (Len(scanLog) + 1)..Len(allFiles) : FileOf(allFiles[i]) = f
  /\ steps < MaxSteps
  /\ d # disk[f]
  /\ disk' = [disk EXCEPT ![f] = d]
  /\ steps' = steps + 1
  /\ UNCHANGED <<opts, watching, fileHashes, classMap, artifact, pc,
                 allFiles, scanLog, lastOp, writeFailed>>
  /\ UNCHANGED callVars

\* the states the second readFileSync of a pass (line 55) may find file f
\* in, the first one (line 192) having found d: the same, or, edited
\* meanwhile, any other state the file takes
Reread(f, d, edited) ==
  IF edited /\ f \in FileNames /\ steps + 1 < MaxSteps
  THEN {d} \cup EditStates(f) ELSE {d}

(***************************************************************************)
(* configureServer (lines 147-172) registers the change handler.           *)
(***************************************************************************)
ConfigureServer ==
  /\ pc = "idle"
  /\ ~watching
  /\ watching' = TRUE
  /\ UNCHANGED <<opts, disk, fileHashes, classMap, artifact, pc, allFiles,
                 scanLog, lastOp, steps, writeFailed>>
  /\ UNCHANGED callVars

(***************************************************************************)
(* buildStart (lines 174-186) calls processAllFiles (lines 79-119), which  *)
(* runs to its end before any change handler can run.                      *)
(***************************************************************************)
BuildStart ==
  /\ pc = "idle"
  /\ steps < MaxSteps
  /\ steps' = steps + 1
  /\ pc' = "scanning"
  /\ allFiles' \in globSync(opts.include, disk)
  /\ UNCHANGED <<opts, watching, disk, fileHashes, classMap, artifact,
                 scanLog, lastOp, writeFailed>>
  /\ UNCHANGED callVars

\* lines 91-98: the store once getFileInfo gave fileInfo and the extraction
\* gave runtimeClass
Stored(map, filePath, fileInfo, runtimeClass) ==
  IF ~fileInfo.null /\ fileInfo.hash # Empty /\ Trim(runtimeClass) # Empty
  THEN Assign(map, filePath, Str(runtimeClass))
  ELSE map

\* the store after the loop body (lines 90-99) has run for filePath, the
\* file being in state d throughout
ScanStore(map, filePath, d) ==
  Stored(map, filePath, getFileInfo(d), Extract(d))

\* one turn of the loop of lines 89-100; edited tells whether the file may
\* be edited between the turn's two reads of it
ScanTurn(edited) ==
  /\ pc = "scanning"
  /\ Len(scanLog) < Len(allFiles)
  /\ \E filePath \in {allFiles[Len(scanLog) + 1]} :
     \E f \in {FileOf(filePath)} :
     \E d \in {disk[f]} :
     \E fileInfo \in {getFileInfo(d)} :
     \E hashed \in {~fileInfo.null /\ fileInfo.hash # Empty} :
     \E d2 \in Reread(f, d, hashed /\ edited) :
         /\ fileHashes' = IF hashed
                          THEN MapSet(fileHashes, filePath, fileInfo.hash)
                          ELSE fileHashes
         /\ classMap' = IF hashed
                        THEN Stored(classMap, filePath, fileInfo, Extract(d2))
                        ELSE classMap
         /\ artifact' = artifact
         /\ disk' = [disk EXCEPT ![f] = d2]
         /\ steps' = IF d2 = d THEN steps ELSE steps + 1
         /\ scanLog' = Append(scanLog,
                         [path |-> filePath, rd |-> d,
                          rd2 |-> IF hashed THEN d2 ELSE "-",
                          extracted |-> hashed,
                          old |-> Entry(classMap, filePath)])
  /\ UNCHANGED <<opts, watching, pc, allFiles, lastOp, writeFailed>>
  /\ UNCHANGED callVars

\* one turn of the loop of lines 89-100
ScanFile == ScanTurn(TRUE)

\* line 102, and the catch of lines 113-118 when the write throws: the
\* exception is logged and processAllFiles ends normally, so nothing is
\* thrown to its caller (threw stays FALSE)
ScanPersist ==
  /\ pc = "scanning"
  /\ Len(scanLog) = Len(allFiles)
  /\ \E text \in {writeClassObjToDesk(classMap)} :
     \E w \in WriteOutcomes(text) :
       /\ w.threw => steps < MaxSteps
       /\ artifact' = Written(w, text, artifact)
       /\ writeFailed' = (writeFailed \/ w.threw)
       /\ steps' = IF w.threw THEN steps + 1 ELSE steps
       /\ lastOp' = [NoOp EXCEPT !.kind = "scan", !.wrote = ~w.threw]
  /\ pc' = "idle"
  /\ allFiles' = <<>>
  /\ scanLog' = <<>>
  /\ UNCHANGED <<opts, watching, disk, fileHashes, classMap>>
  /\ UNCHANGED callVars

(***************************************************************************)
(* The watcher's change handler (lines 153-171).                           *)
(***************************************************************************)
\* every event is taken for a change of the store
AlwaysDiffers(oldValue, runtimeClass) == TRUE

\* oldValue !== runtimeClass (line 166)
Differs(oldValue, runtimeClass) == oldValue # Str(runtimeClass)

\* the handler's locals are bound in the order the code computes them; a
\* local the code does not compute on a path (fileInfo of an ignored event,
\* runtimeClass of an unprocessed one) has a placeholder that nothing reads;
\* the paths the watcher reports are those of project files and of the
\* output file, whose events line 155 ignores, so the file the handler reads
\* (read) is a project file;
\* edited tells whether the project's files are edited while the plugin runs
Change(filePath, edited) ==
  /\ pc = "idle"
  /\ watching
  /\ steps < MaxSteps
  /\ \E relativePath \in {toRelativePath(filePath)} :
     \E ignored \in {relativePath = relativeOutputPath
                        \/ ~filter(opts, filePath)} :
     \E read \in {~ignored /\ FileOf(filePath) \in FileNames} :
     \E d \in {IF read THEN disk[FileOf(filePath)] ELSE "-"} :
     \E fileInfo \in {IF read THEN getFileInfo(d) ELSE [null |-> TRUE]} :
     \E hashed \in {~fileInfo.null /\ fileInfo.hash # Empty} :
     \E oldHash \in {MapGet(fileHashes, filePath)} :
     \E process \in {hashed /\ Str(fileInfo.hash) # oldHash} :
     \E d2 \in Reread(FileOf(filePath), d, process /\ edited) :
     \E runtimeClass \in {IF process THEN Extract(d2) ELSE Empty} :
     \E differs \in {Differs(Entry(classMap, filePath), runtimeClass)} :
     \E again \in {lastOp.kind = "change" /\ lastOp.path = filePath
                      /\ lastOp.rd = d /\ lastOp.rd2 \in {d, "-"}
                      /\ d2 = d} :
     \E op \in {[kind |-> "change", path |-> filePath, rd |-> d,
                 rd2 |-> IF process THEN d2 ELSE "-",
                 fresh |-> hashed /\ fileInfo.hash \notin
                             Committed(fileHashes, FileOf(filePath)),
                 had |-> HasKey(classMap, filePath),
                 extracted |-> process, set |-> process /\ differs,
                 wrote |-> FALSE, threw |-> FALSE, repeat |-> again,
                 prevWrote |-> again /\ lastOp.wrote]} :
     \E n \in {IF d2 = d THEN steps + 1 ELSE steps + 2} :
         /\ disk' = IF d2 = d THEN disk
                    ELSE [disk EXCEPT ![FileOf(filePath)] = d2]
         /\ IF ~process
            THEN /\ lastOp' = op
                 /\ steps' = n
                 /\ UNCHANGED <<fileHashes, classMap, artifact, writeFailed>>
            ELSE /\ fileHashes' =
                      MapSet(fileHashes, relativePath, fileInfo.hash)
                 /\ IF ~differs
                    THEN /\ lastOp' = op
                         /\ steps' = n
                         /\ UNCHANGED <<classMap, artifact, writeFailed>>
                    ELSE /\ classMap' =
                              Assign(classMap, filePath, Str(runtimeClass))
                         /\ \E text \in {writeClassObjToDesk(classMap')} :
                            \E w \in WriteOutcomes(text) :
                              /\ w.threw => n < MaxSteps
                              /\ artifact' = Written(w, text, artifact)
                              /\ writeFailed' = (writeFailed \/ w.threw)
                              /\ steps' = IF w.threw THEN n + 1 ELSE n
                              /\ lastOp' = [op EXCEPT
                                              !.wrote = ~w.threw,
                                              !.threw = w.threw]
  /\ UNCHANGED <<opts, watching, pc, allFiles, scanLog>>
  /\ UNCHANGED callVars

ChangeEvent(filePath) == Change(filePath, TRUE)

\* the paths the watcher may report
EventPaths ==
  {Rel(f) : f \in FileNames} \cup {Abs(f) : f \in {FileA, FileB, OutName}}

Next ==
  \/ \E f \in FileNames : \E d \in EditStates(f) : Edit(f, d)
  \/ ConfigureServer
  \/ BuildStart
  \/ ScanFile
  \/ ScanPersist
  \/ \E filePath \in EventPaths : ChangeEvent(filePath)

Spec == Init /\ [][Next]_vars

(***************************************************************************)
(* The plugin over a project whose first file holds any of the texts, and  *)
(* whose files are not edited while it runs.                               *)
(***************************************************************************)
InitExtract ==
  /\ InitPlugin(Options,
                [f \in FileNames |->
                   IF f = FileA THEN DiskStates ELSE EditStates(f)])
  /\ arg = <<>>
  /\ ret = NoCall

NextExtract ==
  \/ ConfigureServer
  \/ BuildStart
  \/ ScanTurn(FALSE)
  \/ ScanPersist
  \/ \E filePath \in EventPaths : Change(filePath, FALSE)

SpecExtract == InitExtract /\ [][NextExtract]_vars

(***************************************************************************)
(* The exported generateRuntimeClass (load, lines 134-138) called by the   *)
(* project's code with an object of strings.                               *)
(***************************************************************************)
Keys == {Default, U("sm"), U("md")}
ValueChars == {97, Space}  \* 97 is a
\* the texts of at most MaxLen code units
Values == UNION {[1..n -> ValueChars] : n \in 0..MaxLen}

Entries == [k : Keys, v : {Str(x) : x \in Values}]
Mappings ==
  UNION {{m \in [1..n -> Entries] :
            \A i, j \in 1..n : m[i].k = m[j].k => i = j} : n \in 0..MaxKeys}

\* the example of the README (lines 237-253)
ExampleReadme ==
  <<[k |-> Default, v |-> Str(U("p-4 bg-white"))],
    [k |-> U("md"), v |-> Str(U("p-6"))],
    [k |-> U("lg"), v |-> Str(U("p-8 bg-gray-100"))]>>
\* {default: "", sm: "x"}
ExampleEmptyDefault ==
  <<[k |-> Default, v |-> Str(Empty)], [k |-> U("sm"), v |-> Str(U("x"))]>>

InitGenerate ==
  /\ InitPlugin({DefaultOptions}, [f \in FileNames |-> {Missing}])
  /\ arg \in Mappings \cup {ExampleReadme, ExampleEmptyDefault}
  /\ ret = NoCall

Generate ==
  /\ ret = NoCall
  /\ ret' = generateRuntimeClass(arg)
  /\ UNCHANGED <<arg, pluginVars>>

NextGenerate == Generate

SpecGenerate == InitGenerate /\ [][NextGenerate]_vars

(***************************************************************************)
(* C1.  For a mapping whose values are single-space-separated non-empty    *)
(* tokens, the runtimeClass returned is, up to one trailing separator, the *)
(* tokens of the values in key order and then token order, joined by       *)
(* single spaces, a token t of key k written k:t unless k is default; the  *)
(* README's example gives "p-4 bg-white md:p-6 lg:p-8 lg:bg-gray-100".     *)
(***************************************************************************)
SingleSpaced(v) ==
  /\ v # Empty
  /\ At(v, 1) # Space /\ At(v, Len(v)) # Space
  /\ \A i \in 1..(Len(v) - 1) : ~(At(v, i) = Space /\ At(v, i + 1) = Space)

RECURSIVE TokensOf(_, _)
\* the maximal runs of code units other than the space of v, cur being the
\* run under way
TokensOf(v, cur) ==
  IF v = Empty THEN (IF cur = Empty THEN <<>> ELSE <<cur>>)
  ELSE IF Head(v) = Space
  THEN (IF cur = Empty THEN <<>> ELSE <<cur>>) \o TokensOf(Tail(v), Empty)
  ELSE TokensOf(Tail(v), Append(cur, Head(v)))

RECURSIVE Chain(_)
\* the sequences of ss one after the other
Chain(ss) == IF ss = <<>> THEN <<>> ELSE Head(ss) \o Chain(Tail(ss))

ExpectedTokens(obj) ==
  Chain([i \in 1..Len(obj) |->
    LET toks == TokensOf(obj[i].v.str, Empty)
    IN  [j \in 1..Len(toks) |->
           IF obj[i].k = U("default") THEN toks[j]
           ELSE obj[i].k \o U(":") \o toks[j]]])

DropTrailingSep(s) ==
  IF At(s, Len(s)) = Space THEN SubSeq(s, 1, Len(s) - 1) ELSE s

ReadmeClasses == U("p-4 bg-white md:p-6 lg:p-8 lg:bg-gray-100")

C1_FlattenedInOrder ==
  (ret # NoCall /\ \A i \in 1..Len(arg) : SingleSpaced(arg[i].v.str)) =>
    /\ ~ret.threw
    /\ DropTrailingSep(ret.runtimeClass)
         = JoinWith(ExpectedTokens(arg), U(" "))
    /\ arg = ExampleReadme => DropTrailingSep(ret.runtimeClass) = ReadmeClasses

C1_Witness ==
  /\ ret # NoCall
  /\ arg = ExampleReadme
  /\ ret.runtimeClass = ReadmeClasses \o U(" ")

(***************************************************************************)
(* C2.  A key whose value is the empty string contributes nothing to the   *)
(* runtimeClass: {default: "", sm: "x"} gives "sm:x" (a trailing separator *)
(* apart), and in general the result is that of the mapping without its    *)
(* empty-valued keys.                                                      *)
(***************************************************************************)
WithoutEmpty(obj) == SelectSeq(obj, LAMBDA e : e.v.str # Empty)

C2_EmptyValueContributesNothing ==
  ret # NoCall =>
    /\ arg = ExampleEmptyDefault
         => DropTrailingSep(ret.runtimeClass) = U("sm:x")
    /\ DropTrailingSep(ret.runtimeClass)
         = DropTrailingSep(generateRuntimeClass(WithoutEmpty(arg)).runtimeClass)

(***************************************************************************)
(* Properties of the running plugin.                                       *)
(***************************************************************************)
\* the step is an edit of a file and nothing else
IsEditStep ==
  disk' # disk /\ steps' = steps + 1 /\ UNCHANGED <<pc, scanLog, lastOp>>

\* the step is a run of the change handler during which no file is edited
IsChangeStep ==
  /\ pc = "idle" /\ pc' = "idle"
  /\ steps' > steps
  /\ disk' = disk
  /\ watching' = watching

\* the artifact deserializes to the store
Synced ==
  JSONParse(artifact) = [ok |-> TRUE, v |-> [type |-> "object", obj |-> classMap]]

\* no scan has ended and no change event has run the extraction
NoPassYet ==
  /\ artifact = NoArtifact
  /\ classMap = <<>>
  /\ lastOp.kind # "scan"
  /\ ~lastOp.extracted

(***************************************************************************)
(* C3.  While no write has failed, whenever the plugin is idle after its   *)
(* first completed pass, the artifact deserializes to exactly the store:   *)
(* the same keys with the same values.                                     *)
(***************************************************************************)
C3_ArtifactIsStore ==
  (pc = "idle" /\ ~writeFailed /\ ~NoPassYet) => Synced

C3_Witness ==
  /\ pc = "idle" /\ ~writeFailed
  /\ Len(classMap) >= 2
  /\ lastOp.kind = "change" /\ lastOp.wrote
  /\ Synced

(***************************************************************************)
(* C4.  A change event extracts a file if and only if no fingerprint has   *)
(* been committed for the file or the new one differs from it; when the    *)
(* fingerprint committed for the file is the new one, extraction does not  *)
(* run and the store is not touched.                                       *)
(***************************************************************************)
C4_ExtractIffFingerprintNew ==
  [][(IsChangeStep /\ lastOp'.rd \in ContentIds) =>
       LET known == Committed(fileHashes, FileOf(lastOp'.path))
           h == getFileHash(lastOp'.rd)
       IN  /\ h \notin known => lastOp'.extracted
           /\ known = {h} => ~lastOp'.extracted /\ classMap' = classMap]_vars

(***************************************************************************)
(* C5, as claimed.  The same change event (same path, same new content)    *)
(* delivered twice in a row writes the artifact exactly once: the first    *)
(* delivery writes, the second does not and leaves cache and store alone.  *)
(***************************************************************************)
C5_ExactlyOneWrite ==
  [][(IsChangeStep /\ lastOp'.repeat /\ lastOp.fresh /\ ~writeFailed') =>
       /\ lastOp.wrote
       /\ ~lastOp'.wrote
       /\ classMap' = classMap /\ fileHashes' = fileHashes]_vars

(***************************************************************************)
(* C5, amended.  The same change event delivered twice in a row writes the *)
(* artifact at most once: the first delivery writes exactly when it        *)
(* changes the store entry of the file and the write succeeds, the second  *)
(* performs no write and leaves cache, store and artifact unchanged.       *)
(***************************************************************************)
C5_AtMostOneWrite ==
  [][(IsChangeStep /\ lastOp'.repeat) =>
       /\ lastOp.wrote <=> (lastOp.set /\ ~lastOp.threw)
       /\ ~lastOp'.wrote /\ ~lastOp'.threw
       /\ artifact' = artifact
       /\ classMap' = classMap /\ fileHashes' = fileHashes]_vars

C5_Witness ==
  /\ lastOp.kind = "change" /\ lastOp.repeat
  /\ lastOp.rd \in ContentIds
  /\ lastOp.prevWrote
  /\ ~lastOp.wrote

(***************************************************************************)
(* C6.  When a file that had a store entry is processed again and holds no *)
(* extractable marker call, its key is removed from the store and is       *)
(* absent from the artifact written next; the store never keeps a key      *)
(* whose value is the empty string.                                        *)
(***************************************************************************)
NoMarker(d) == d \in ContentIds /\ Extract(d) = Empty

C6_KeyRemovedWhenMarkerGone ==
  /\ \A i \in 1..Len(classMap) : classMap[i].v.str # Empty
  /\ (lastOp.kind = "change" /\ lastOp.extracted /\ lastOp.had
        /\ NoMarker(lastOp.rd2)) =>
       /\ ~HasKey(classMap, lastOp.path)
       /\ lastOp.wrote /\ Synced
  /\ \A i \in 1..Len(scanLog) :
       (scanLog[i].extracted /\ IsString(scanLog[i].old)
          /\ NoMarker(scanLog[i].rd2)) => ~HasKey(classMap, scanLog[i].path)

(***************************************************************************)
(* C7.  In a full scan, a file whose read fails or whose marker call has   *)
(* an argument that does not parse into an object of strings adds no store *)
(* entry and does not abort the scan: while files remain, the only step is *)
(* the processing of the next file of the list, and after the last file    *)
(* the only step is the persist, which returns the plugin to idle.         *)
(***************************************************************************)
MalformedOf == [d \in ContentIds |-> Malformed(Text(d))]
BadFile(d) == d \notin ContentIds \/ MalformedOf[d]

\* the turn of the scan that the log entry e records met a failure: the
\* read of getFileInfo failed, or the extraction read no text or a malformed
\* argument
FailedTurn(e) == e.rd \notin ContentIds \/ (e.extracted /\ BadFile(e.rd2))

C7_ScanStep ==
  (pc = "scanning" /\ ~IsEditStep) =>
    IF Len(scanLog) < Len(allFiles)
    THEN LET filePath == allFiles[Len(scanLog) + 1]
         IN  /\ pc' = "scanning"
             /\ allFiles' = allFiles
             /\ Len(scanLog') = Len(scanLog) + 1
             /\ scanLog'[Len(scanLog')].path = filePath
             /\ FailedTurn(scanLog'[Len(scanLog')]) => classMap' = classMap
    ELSE /\ pc' = "idle"
         /\ lastOp'.kind = "scan"
         /\ lastOp'.wrote => artifact' = writeClassObjToDesk(classMap)

C7_BadFileIsolated == [][C7_ScanStep]_vars

C7_Witness ==
  /\ pc = "scanning"
  /\ Len(scanLog) = 2 /\ Len(allFiles) = 2
  /\ scanLog[1].rd = "arr" /\ scanLog[1].rd2 = "arr"
  /\ ~HasKey(classMap, scanLog[1].path)
  /\ scanLog[2].rd = "B" /\ scanLog[2].rd2 = "B"
  /\ HasKey(classMap, scanLog[2].path)

(***************************************************************************)
(* C8.  A change event that delivers a malformed marker literal for a path *)
(* that has a store entry leaves the entry and the artifact as they were.  *)
(***************************************************************************)
C8_MalformedKeepsEntry ==
  [][(IsChangeStep /\ lastOp'.rd \in ContentIds
        /\ MalformedOf[lastOp'.rd] /\ HasKey(classMap, lastOp'.path)) =>
       /\ Entry(classMap', lastOp'.path) = Entry(classMap, lastOp'.path)
       /\ artifact' = artifact]_vars

(***************************************************************************)
(* C9.  A file the include/exclude options reject never has a store entry, *)
(* and the scan lists exactly the files the watcher's filter accepts: when *)
(* a scan starts, its list is the existing files that the filter accepts.  *)
(***************************************************************************)
\* the options accept the file: createFilter applied to its absolute id
OptionsAccept(f) == filter(opts, Abs(f))

C9_RejectedFileNeverStored ==
  [][/\ \A i \in 1..Len(classMap') : OptionsAccept(FileOf(classMap'[i].k))
     /\ (pc = "idle" /\ pc' = "scanning") =>
          {FileOf(allFiles'[i]) : i \in 1..Len(allFiles')}
            = {f \in FileNames : disk[f] # Missing /\ OptionsAccept(f)}]_vars

(***************************************************************************)
(* C10.  For a file that holds two well-formed marker calls, the store     *)
(* entry and the artifact key hold the expansion of the first call in text *)
(* order, whatever the argument of the second call.                        *)
(***************************************************************************)
TwoCalls == {"two", "twoB", "twoC"}

\* the argument of the first call of a text with two calls
FirstLiteral(id) == IF id = "twoC" THEN LitB ELSE LitA

FirstExpansion(id) ==
  Str(generateRuntimeClass(JSONParse(Normalize(FirstLiteral(id))).v.obj)
        .runtimeClass)

FirstCallOnly(obj) ==
  \A i \in 1..Len(obj) :
    LET d == disk[FileOf(obj[i].k)]
    IN  d \in TwoCalls => obj[i].v = FirstExpansion(d)

C10_FirstCallWins ==
  /\ FirstCallOnly(classMap)
  /\ (pc = "idle" /\ ~writeFailed /\ artifact # NoArtifact) =>
       artifact = writeClassObjToDesk(classMap)
  /\ (pc = "idle" /\ lastOp.kind = "change" /\ lastOp.extracted
        /\ lastOp.rd \in TwoCalls) => HasKey(classMap, lastOp.path)

C10_Witness ==
  /\ pc = "idle"
  /\ \E i \in 1..Len(classMap) :
       /\ disk[FileOf(classMap[i].k)] = "twoC"
       /\ classMap[i].v = Str(U("a b md:b "))
  /\ artifact = writeClassObjToDesk(classMap)

(***************************************************************************)
(* C11.  Each file has one identity: the fingerprint cache and the store   *)
(* each hold at most one key per file, and a change event looks the        *)
(* fingerprint up under the key it commits it under.                       *)
(***************************************************************************)
HashKeysOf(f) == {k \in DOMAIN fileHashes : FileOf(k) = f}
StoreKeysOf(f) ==
  {classMap[i].k : i \in {j \in 1..Len(classMap) : FileOf(classMap[j].k) = f}}

C11_SingleIdentity ==
  /\ \A f \in FileNames :
       Cardinality(HashKeysOf(f)) <= 1 /\ Cardinality(StoreKeysOf(f)) <= 1
  /\ (lastOp.kind = "change" /\ lastOp.extracted) =>
       lastOp.path = toRelativePath(lastOp.path)

(***************************************************************************)
(* C12.  From an empty session, the store a change event for a file leaves *)
(* is the store a full scan of that file alone leaves: the same key, the   *)
(* same value, or no entry when nothing is extractable.                    *)
(***************************************************************************)
EmptySession == fileHashes = <<>> /\ classMap = <<>> /\ artifact = NoArtifact

C12_UpdateIsScanOfOneFile ==
  [][(IsChangeStep /\ EmptySession /\ lastOp'.kind = "change"
        /\ lastOp'.rd # "-") =>
       classMap' = ScanStore(<<>>, toRelativePath(lastOp'.path), lastOp'.rd)]_vars

(***************************************************************************)
(* C13.  A pass in which the read of a file fails, or its marker literal   *)
(* does not parse into an object of strings, leaves the fingerprint cache  *)
(* as it was.                                                              *)
(***************************************************************************)
IsScanFileStep == pc = "scanning" /\ Len(scanLog') = Len(scanLog) + 1

C13_NoCommitOnFailure ==
  [][/\ (IsScanFileStep /\ FailedTurn(scanLog'[Len(scanLog')]))
          => fileHashes' = fileHashes
     /\ (IsChangeStep /\ lastOp'.kind = "change" /\ lastOp'.rd # "-"
           /\ BadFile(lastOp'.rd)) => fileHashes' = fileHashes]_vars

(***************************************************************************)
(* C14.  A pass that changes no store entry does not write the artifact:   *)
(* neither a full scan whose files all keep their entries, nor a change    *)
(* event that leaves the store as it was.                                  *)
(***************************************************************************)
ScanChangedNothing ==
  \A i \in 1..Len(scanLog) :
    Entry(classMap, scanLog[i].path) = scanLog[i].old

C14_WriteOnlyOnChange ==
  [][/\ (pc = "scanning" /\ pc' = "idle" /\ ScanChangedNothing)
          => ~lastOp'.wrote
     /\ (IsChangeStep /\ lastOp'.kind = "change" /\ classMap' = classMap)
          => ~lastOp'.wrote /\ artifact' = artifact]_vars

(***************************************************************************)
(* C15.  A full scan writes the artifact once, after the last file of the  *)
(* list: listing the files and processing a file leave the artifact as it  *)
(* was, the scan ends with the one write, and the text of that write       *)
(* holds, under its path, the classes the scan extracted from each file of *)
(* the list that has some.                                                 *)
(***************************************************************************)
\* the artifact text holds the classes under the key path
Holds(text, path, classes) ==
  LET parsed == JSONParse(text)
  IN  /\ parsed.ok
      /\ HasKey(parsed.v.obj, path)
      /\ ObjGet(parsed.v.obj, path) = Str(classes)

C15_ScanStep ==
  /\ (pc = "idle" /\ pc' = "scanning") => artifact' = artifact
  /\ IsScanFileStep => artifact' = artifact /\ pc' = "scanning"
  /\ (pc = "scanning" /\ pc' = "idle") =>
       /\ Len(scanLog) = Len(allFiles)
       /\ lastOp'.kind = "scan"
       /\ lastOp'.wrote => artifact' = writeClassObjToDesk(classMap)
       /\ \A i \in 1..Len(scanLog) :
            (scanLog[i].extracted
               /\ Trim(Extract(scanLog[i].rd2)) # Empty) =>
              Holds(writeClassObjToDesk(classMap), scanLog[i].path,
                    Extract(scanLog[i].rd2))

C15_ScanWritesOnceAtEnd == [][C15_ScanStep]_vars

(***************************************************************************)
(* C16.  A write of the artifact that fails during a scan or an update is  *)
(* thrown to the caller of the pass, and a write that succeeds puts the    *)
(* whole current store in the artifact.                                    *)
(***************************************************************************)
C16_WriteFailureSurfaced ==
  /\ (lastOp.kind = "scan" /\ ~lastOp.wrote) => lastOp.threw
  /\ (lastOp.kind = "change" /\ lastOp.set /\ ~lastOp.wrote) => lastOp.threw
  /\ lastOp.wrote => artifact = writeClassObjToDesk(classMap)

(***************************************************************************)
(* C17.  The tokens generateRuntimeClass emits are those of a split on     *)
(* runs of spaces: for non-empty values, with leading, trailing or         *)
(* consecutive spaces too, no emitted token is empty and none is a bare    *)
(* prefix "k:".                                                            *)
(***************************************************************************)
\* the tokens of the result: each one is followed by one separator
EmittedTokens(out) ==
  LET t == SplitOn(out, Space) IN SubSeq(t, 1, Len(t) - 1)

C17_SplitOnWhitespaceRuns ==
  (ret # NoCall /\ \A i \in 1..Len(arg) : arg[i].v.str # Empty) =>
    /\ ~ret.threw
    /\ \A i \in 1..Len(EmittedTokens(ret.runtimeClass)) :
         LET tok == EmittedTokens(ret.runtimeClass)[i]
         IN  tok # Empty /\ At(tok, Len(tok)) # Colon
    /\ EmittedTokens(ret.runtimeClass) = ExpectedTokens(arg)

(***************************************************************************)
(* C18.  A file whose only call is to a longer identifier that ends with   *)
(* the marker name, xgenerateRuntimeClass({ sm: 'a' }), never has a store  *)
(* entry that holds classes: the call is not extracted.                    *)
(***************************************************************************)
C18_WholeIdentifierOnly ==
  \A i \in 1..Len(classMap) :
    disk[FileOf(classMap[i].k)] = "xmarker" => Trim(classMap[i].v.str) = Empty

(***************************************************************************)
(* C19.  A change event for the output file is ignored: nothing is read,   *)
(* extraction does not run, cache, store and artifact stay as they were    *)
(* and no write is attempted; handleHotUpdate answers it with the empty    *)
(* list.                                                                   *)
(***************************************************************************)
C19_ArtifactEventIgnored ==
  [][(IsChangeStep /\ lastOp'.kind = "change"
        /\ FileOf(lastOp'.path) = OutName) =>
       /\ lastOp'.rd = "-"
       /\ ~lastOp'.extracted /\ ~lastOp'.set
       /\ ~lastOp'.wrote /\ ~lastOp'.threw
       /\ UNCHANGED <<fileHashes, classMap, artifact, writeFailed>>
       /\ handleHotUpdate(lastOp'.path) = "[]"]_vars

C19_Witness ==
  /\ lastOp.kind = "change"
  /\ lastOp.path = Abs(OutName)
  /\ lastOp.rd = "-"
  /\ artifact # NoArtifact /\ classMap # <<>>

\* whether the text without the import holds a marker call
NoImportHasCall == RegexMatch(Text("noimport")).ok

(***************************************************************************)
(* C20.  A file that does not hold the virtual module id is not searched   *)
(* for marker calls: though it holds one, the scan gives it no store       *)
(* entry, a change event stores the empty string for it, and the           *)
(* extraction raises nothing.                                              *)
(***************************************************************************)
C20_ModuleIdGatesExtraction ==
  /\ NoImportHasCall
  /\ \A i \in 1..Len(classMap) :
       disk[FileOf(classMap[i].k)] = "noimport" => classMap[i].v = Str(Empty)
  /\ \A i \in 1..Len(scanLog) :
       scanLog[i].rd = "noimport" =>
         Entry(classMap, scanLog[i].path) = scanLog[i].old
  /\ (lastOp.kind = "change" /\ lastOp.rd = "noimport" /\ lastOp.extracted) =>
       /\ Entry(classMap, lastOp.path) = Str(Empty)
       /\ lastOp.threw => lastOp.set

C20_Witness ==
  /\ lastOp.kind = "change" /\ lastOp.rd = "noimport"
  /\ lastOp.extracted /\ lastOp.wrote
  /\ Entry(classMap, lastOp.path) = Str(Empty)
  /\ \E f \in FileNames : disk[f] = "noimport" /\ HashKeysOf(f) # {}

====
